---- MODULE Spec2Model ----
(***************************************************************************)
(* USB-DVG frame driver (src/Win32/dvg/zvgFrame.c): the command buffer,    *)
(* the colour / vector encoders, the Cohen-Sutherland clipper, the chunked *)
(* transmission and the serial channel life cycle.                         *)
(*                                                                         *)
(* The command buffer s_cmd_buf is kept byte-exact but grouped in quads of *)
(* four bytes (every store in the source is four consecutive bytes at a    *)
(* multiple of four) and run-length encoded: `hdr` is the quad at offset   *)
(* 0, `fill` counts the quads that follow it and hold the black RGB word,  *)
(* `tail` lists the quads after those.  Bytes at or beyond s_cmd_offs that *)
(* the code can no longer read before overwriting them are not kept.       *)
(***************************************************************************)
EXTENDS Integers, Sequences, FiniteSets, TLC

(***************************************************************************)
(* Program constants                                                       *)
(***************************************************************************)
CMD_BUF_SIZE == 131072
FLAG_COMPLETE == 0
FLAG_RGB == 1
FLAG_XY == 2
FLAG_EXIT == 7
FLAG_FRAME == 4
FLAG_QUALITY == 3
DVG_RES_MIN == 0
DVG_RES_MAX == 4095
DVG_RENDER_QUALITY == 5
TOP == 8
BOTTOM == 4
RIGHT == 2
LEFT == 1
INT_MIN == -2147483647 - 1
CHUNK_MAX == 1024
INVALID_HANDLE_VALUE == -1
\* the handle CreateFile / open returns when it succeeds
VALID_HANDLE == 3

errOk == 0
errOpenCom == 1
errComState == 2
errSetComTimeout == 3
errOpenDevice == 4

\* Logical coordinate space of the embedding application (zvgFrame.h).
X_MIN == 0
X_MAX == 1000
Y_MIN == 0
Y_MAX == 1000

(***************************************************************************)
(* Bounds of the model                                                     *)
(***************************************************************************)
\* a frame that started empty takes further stores while it holds fewer quads
MaxTail == 3
\* the same for a frame that started part filled or nearly full
MaxGrow == 1
\* accumulated path length up to which further vectors are drawn
MaxPath == 3000
\* number of black RGB quads already in the frame in the "part filled" start
MidFill == 622
\* number of black RGB quads already in the frame in the "nearly full" start
NearFill == 32765
\* highest index of a Transport write that the environment lets fail
MaxBadWrite == 2
\* passes of the loop of line_clip after which ClipSpec follows it no further
MaxReplace == 8

(***************************************************************************)
(* 32-bit arithmetic.  An int of the program is an integer in              *)
(* INT_MIN .. INT_MAX; sums, differences and products wrap modulo 2^32.    *)
(* They are computed on 16-bit limbs so that no intermediate value leaves  *)
(* that range.                                                             *)
(***************************************************************************)
Pow2(n) == 2 ^ n

Max2(a, b) == IF a > b THEN a ELSE b

Abs(a) == IF a < 0 THEN -a ELSE a

\* the two 16-bit halves of the two's complement pattern of an int
Limbs(v) ==
    IF v >= 0 THEN [hi |-> v \div 65536, lo |-> v % 65536]
    ELSE LET w == v - INT_MIN
         IN [hi |-> 32768 + (w \div 65536), lo |-> w % 65536]

\* the int whose two's complement pattern has these halves
OfLimbs(hi, lo) ==
    IF hi < 32768 THEN hi * 65536 + lo
    ELSE ((hi - 32768) * 65536 + lo) + INT_MIN

\* operands whose sum and difference (product) cannot leave the int range
Small30(a, b) == -1073741824 < a /\ a < 1073741824 /\ -1073741824 < b /\ b < 1073741824

Small15(a, b) == -32768 < a /\ a < 32768 /\ -32768 < b /\ b < 32768

\* a + b, a - b and a * b in int, wrapping
Add32(a, b) ==
    IF Small30(a, b) THEN a + b
    ELSE LET x == Limbs(a)
             y == Limbs(b)
             l == x.lo + y.lo
         IN OfLimbs((x.hi + y.hi + (l \div 65536)) % 65536, l % 65536)

Sub32(a, b) ==
    IF Small30(a, b) THEN a - b
    ELSE LET x == Limbs(a)
             y == Limbs(b)
             l == x.lo - y.lo
         IN OfLimbs((x.hi - y.hi - (IF l < 0 THEN 1 ELSE 0)) % 65536, l % 65536)

\* the 32-bit product of two 16-bit values, as halves
Mul16(a, b) ==
    LET t0 == (a % 256) * b
        t1 == (a \div 256) * b
        m  == (t1 % 256) * 256 + t0
    IN [hi |-> (t1 \div 256) + (m \div 65536), lo |-> m % 65536]

Mul32(a, b) ==
    IF Small15(a, b) THEN a * b
    ELSE LET x == Limbs(a)
             y == Limbs(b)
             p == Mul16(x.lo, y.lo)
         IN OfLimbs((p.hi + Mul16(x.hi, y.lo).lo + Mul16(x.lo, y.hi).lo) % 65536, p.lo)

\* a division that rounds toward minus infinity
CDiv_Floor(a, b) == IF b > 0 THEN a \div b ELSE (-a) \div (-b)

\* C integer division: truncates toward zero
CDiv(a, b) == IF (a >= 0) = (b > 0) THEN Abs(a) \div Abs(b) ELSE -(Abs(a) \div Abs(b))

\* bitwise and / or of two values of n bits
RECURSIVE BitAnd(_, _, _)
BitAnd(a, b, n) ==
    IF n = 0 THEN 0
    ELSE (a % 2) * (b % 2) + 2 * BitAnd(a \div 2, b \div 2, n - 1)

RECURSIVE BitOr(_, _, _)
BitOr(a, b, n) ==
    IF n = 0 THEN 0
    ELSE Max2(a % 2, b % 2) + 2 * BitOr(a \div 2, b \div 2, n - 1)

\* floor of the square root of an int >= 0 (46340 is the root of INT_MAX)
RECURSIVE ISqrtBetween(_, _, _)
ISqrtBetween(v, lo, hi) ==
    IF lo = hi THEN lo
    ELSE LET mid == (lo + hi + 1) \div 2
         IN IF mid * mid <= v THEN ISqrtBetween(v, mid, hi)
                              ELSE ISqrtBetween(v, lo, mid - 1)

\* the square root rounded to the nearest integer instead of truncated
ISqrt_Rounded(v) ==
    LET r == ISqrtBetween(v, 0, 46340)
    IN IF v - r * r > r THEN r + 1 ELSE r

ISqrt(v) == ISqrtBetween(v, 0, 46340)

\* MIN(x, y) of the source: both operands compared as int
MIN(x, y) == IF x < y THEN x ELSE y

CONVX(x) == CDiv(Mul32(Sub32(x, X_MIN), DVG_RES_MAX), X_MAX - X_MIN)

CONVY(y) == CDiv(Mul32(Sub32(y, Y_MIN), DVG_RES_MAX), Y_MAX - Y_MIN)

(***************************************************************************)
(* Command words.  A uint32_t cmd is kept as [tag, pay]: its top 3 bits    *)
(* and its low 29 bits.                                                    *)
(***************************************************************************)
\* bits 29..31 and bits 0..28 of an int converted to uint32_t
Top3(v) == Limbs(v).hi \div 8192

Low29(v) == (Limbs(v).hi % 8192) * 65536 + Limbs(v).lo

\* the four bytes cmd >> 24, cmd >> 16, cmd >> 8, cmd >> 0 stored as uint8_t
BytesOf(cmd) ==
    << cmd.tag * 32 + (cmd.pay \div Pow2(24)), (cmd.pay \div Pow2(16)) % 256,
       (cmd.pay \div Pow2(8)) % 256, cmd.pay % 256 >>

\* the tag and the payload of the big-endian word a quad of bytes spells
TagOf(q) == q[1] \div 32

PayloadOf(q) == (q[1] % 32) * Pow2(24) + q[2] * Pow2(16) + q[3] * Pow2(8) + q[4]

\* cmd = (FLAG_FRAME << 29) | s_vector_length
CmdFrame(len) == [tag |-> BitOr(FLAG_FRAME, Top3(len), 3), pay |-> Low29(len)]

CmdQuality == [tag |-> FLAG_QUALITY, pay |-> DVG_RENDER_QUALITY]

CmdComplete == [tag |-> FLAG_COMPLETE, pay |-> 0]

CmdExit == [tag |-> FLAG_EXIT, pay |-> 0]

CmdRGB(r, g, b) ==
    [tag |-> FLAG_RGB, pay |-> (r % 256) * Pow2(16) + (g % 256) * Pow2(8) + (b % 256)]

CmdXY(blank, x, y) ==
    [tag |-> FLAG_XY,
     pay |-> (blank % 2) * Pow2(28) + (x % 16384) * Pow2(14) + (y % 16384)]

XField(q) == (PayloadOf(q) \div Pow2(14)) % 16384

YField(q) == PayloadOf(q) % 16384

BlankField(q) == (PayloadOf(q) \div Pow2(28)) % 2

(***************************************************************************)
(* State                                                                   *)
(***************************************************************************)
VARIABLES
    s_cmd_offs,       \* write offset into s_cmd_buf, in bytes
    s_cmd_buf,        \* [hdr, fill, tail]: the bytes below s_cmd_offs
    s_last_r, s_last_g, s_last_b,
    s_vector_length,
    s_last_x, s_last_y,
    s_serial_fd,
    s_xmin, s_ymin, s_xmax, s_ymax,
    wire,             \* Transport writes issued by the latest call
    sent,             \* the bytes the latest call handed to Transport
    call,             \* the latest API call, its arguments and locals
    scenario          \* how far the calls so far follow ScenarioCalls (0: not)

vars ==
    << s_cmd_offs, s_cmd_buf, s_last_r, s_last_g, s_last_b, s_vector_length,
       s_last_x, s_last_y, s_serial_fd, s_xmin, s_ymin, s_xmax, s_ymax,
       wire, sent, call, scenario >>

frame_vars ==
    << s_cmd_offs, s_cmd_buf, s_last_r, s_last_g, s_last_b, s_vector_length,
       s_last_x, s_last_y >>

clip_vars == << s_xmin, s_ymin, s_xmax, s_ymax >>

ZeroQuad == << 0, 0, 0, 0 >>

\* the header slot (offset 0..3) once the write offset has been set to 4 over
\* it: serial_send and serial_close store to it before Transport reads it
StaleQuad == << >>

FillQuad == BytesOf(CmdRGB(0, 0, 0))

EmptyBuf == [hdr |-> ZeroQuad, fill |-> 0, tail |-> << >>]

NoCall ==
    [op |-> "none", args |-> << >>, accepted |-> FALSE, clip |-> << >>,
     q |-> << >>, jump |-> FALSE, stored |-> 0, top |-> -1, size |-> 0,
     result |-> 0]

NothingSent == [size |-> 0, hdr |-> ZeroQuad, fill |-> 0, tail |-> << >>]

(***************************************************************************)
(* vector_length: dx, dy and the sum are int; signed overflow wraps on the *)
(* two's complement builds the driver targets.  The result is a set: when  *)
(* the wrapped sum is negative sqrt yields NaN and its conversion to       *)
(* uint32_t is undefined (0 and 0x80000000 are what x86 builds produce).   *)
(***************************************************************************)
vector_length(x0, y0, x1, y1) ==
    LET dx == Sub32(x1, x0)
        dy == Sub32(y1, y0)
        sq == Add32(Mul32(dx, dx), Mul32(dy, dy))
    IN IF sq >= 0 THEN {ISqrt(sq)} ELSE {0, INT_MIN}

(***************************************************************************)
(* compute_code and line_clip (Cohen-Sutherland)                           *)
(***************************************************************************)
\* region codes that count a point on the window's edge as outside
compute_code_Inclusive(x, y) ==
    (IF x <= s_xmin THEN LEFT ELSE IF x >= s_xmax THEN RIGHT ELSE 0)
  + (IF y <= s_ymin THEN BOTTOM ELSE IF y >= s_ymax THEN TOP ELSE 0)

compute_code(x, y) ==
    (IF x < s_xmin THEN LEFT ELSE IF x > s_xmax THEN RIGHT ELSE 0)
  + (IF y < s_ymin THEN BOTTOM ELSE IF y > s_ymax THEN TOP ELSE 0)

HasBit(code, flag) == BitAnd(code, flag, 4) # 0

\* a choice that picks point 2 unless it is inside
CodeOut_PreferSecond(code1, code2) == IF code2 # 0 THEN code2 ELSE code1

\* the endpoint picked for replacement: point 1 unless it is inside
CodeOut(code1, code2) == IF code1 # 0 THEN code1 ELSE code2

\* the intersection of the segment with the boundary named first by code_out
Intersect(p, code_out) ==
    IF HasBit(code_out, TOP) THEN
        [x |-> Add32(p.x1, CDiv(Mul32(Sub32(p.x2, p.x1), Sub32(s_ymax, p.y1)), Sub32(p.y2, p.y1))),
         y |-> s_ymax]
    ELSE IF HasBit(code_out, BOTTOM) THEN
        [x |-> Add32(p.x1, CDiv(Mul32(Sub32(p.x2, p.x1), Sub32(s_ymin, p.y1)), Sub32(p.y2, p.y1))),
         y |-> s_ymin]
    ELSE IF HasBit(code_out, RIGHT) THEN
        [x |-> s_xmax,
         y |-> Add32(p.y1, CDiv(Mul32(Sub32(p.y2, p.y1), Sub32(s_xmax, p.x1)), Sub32(p.x2, p.x1)))]
    ELSE IF HasBit(code_out, LEFT) THEN
        [x |-> s_xmin,
         y |-> Add32(p.y1, CDiv(Mul32(Sub32(p.y2, p.y1), Sub32(s_xmin, p.x1)), Sub32(p.x2, p.x1)))]
    ELSE [x |-> p.x, y |-> p.y]

\* the divisor of the intersection formula that Intersect evaluates
Divisor(p, code_out) ==
    IF HasBit(code_out, TOP) \/ HasBit(code_out, BOTTOM) THEN Sub32(p.y2, p.y1)
    ELSE IF HasBit(code_out, RIGHT) \/ HasBit(code_out, LEFT) THEN Sub32(p.x2, p.x1)
    ELSE 1

\* a replacement that does not recompute the region code of the moved endpoint
ClipStep_StaleCode(p) ==
    LET code_out == CodeOut(p.code1, p.code2)
        i == Intersect(p, code_out)
    IN IF code_out = p.code1
       THEN [p EXCEPT !.x = i.x, !.y = i.y, !.x1 = i.x, !.y1 = i.y]
       ELSE [p EXCEPT !.x = i.x, !.y = i.y, !.x2 = i.x, !.y2 = i.y]

\* one pass of the loop body that replaces an endpoint (lines 325-375)
ClipStep(p) ==
    LET code_out == CodeOut(p.code1, p.code2)
        i == Intersect(p, code_out)
    IN IF code_out = p.code1
       THEN [p EXCEPT !.x = i.x, !.y = i.y, !.x1 = i.x, !.y1 = i.y,
                      !.code1 = compute_code(i.x, i.y)]
       ELSE [p EXCEPT !.x = i.x, !.y = i.y, !.x2 = i.x, !.y2 = i.y,
                      !.code2 = compute_code(i.x, i.y)]

ClipAccepts(p) == p.code1 = 0 /\ p.code2 = 0

\* a loop without the test of the shared region
ClipRejects_Never(p) == FALSE

ClipRejects(p) == ~ClipAccepts(p) /\ BitAnd(p.code1, p.code2, 4) # 0

RECURSIVE ClipLoop(_)
ClipLoop(p) ==
    IF ClipAccepts(p) THEN [accept |-> 1, x1 |-> p.x1, y1 |-> p.y1, x2 |-> p.x2, y2 |-> p.y2]
    ELSE IF ClipRejects(p) THEN [accept |-> 0, x1 |-> p.x1, y1 |-> p.y1, x2 |-> p.x2, y2 |-> p.y2]
    ELSE ClipLoop(ClipStep(p))

\* the locals of line_clip when it reaches its loop (lines 296-307)
ClipEntry(x1, y1, x2, y2) ==
    [x |-> 0, y |-> 0, x1 |-> x1, y1 |-> y1, x2 |-> x2, y2 |-> y2,
     code1 |-> compute_code(x1, y1), code2 |-> compute_code(x2, y2)]

line_clip(x1, y1, x2, y2) == ClipLoop(ClipEntry(x1, y1, x2, y2))

(***************************************************************************)
(* Stores into the command buffer.  m = [offs, buf, top] is the write      *)
(* offset, the buffer and the highest index stored to by the call so far.  *)
(***************************************************************************)
\* s_cmd_buf[s_cmd_offs++] = cmd >> 24; ... ; s_cmd_buf[s_cmd_offs++] = cmd >> 0
Put4(m, cmd) ==
    [offs |-> m.offs + 4,
     buf  |-> IF m.offs = 0 THEN [m.buf EXCEPT !.hdr = BytesOf(cmd)]
                            ELSE [m.buf EXCEPT !.tail = Append(@, BytesOf(cmd))],
     top  |-> Max2(m.top, m.offs + 3)]

\* if (s_cmd_offs <= (CMD_BUF_SIZE - 8))
HasRoom(offs) == offs <= CMD_BUF_SIZE - 8

PutCmd(m, cmd) == IF HasRoom(m.offs) THEN Put4(m, cmd) ELSE m

\* s_cmd_buf[0..3] = cmd >> 24 .. cmd >> 0
PutHeader(m, cmd) ==
    [m EXCEPT !.buf.hdr = BytesOf(cmd), !.top = Max2(m.top, 3)]

Mem == [offs |-> s_cmd_offs, buf |-> s_cmd_buf, top |-> -1]

\* number of quads below the write offset
QuadsOf(buf) == 1 + buf.fill + Len(buf.tail)

\* the last quad stored below the write offset
LastQuad(buf) ==
    IF Len(buf.tail) > 0 THEN buf.tail[Len(buf.tail)]
    ELSE IF buf.fill > 0 THEN FillQuad ELSE buf.hdr

(***************************************************************************)
(* cmd_reset                                                               *)
(***************************************************************************)
cmd_reset ==
    /\ s_cmd_offs' = 4
    /\ s_cmd_buf' = [hdr |-> StaleQuad, fill |-> 0, tail |-> << >>]
    /\ s_vector_length' = 0
    /\ s_last_x' = INT_MIN
    /\ s_last_y' = INT_MIN
    /\ s_last_r' = 0
    /\ s_last_g' = 0
    /\ s_last_b' = 0

(***************************************************************************)
(* Transport: what one WriteFile call does                                 *)
(***************************************************************************)
WriteKinds == {"ok", "short", "none", "fail"}

\* bytes written, or -1 when WriteFile fails
Written(size, kind) ==
    CASE kind = "ok" -> size
      [] kind = "short" -> size \div 2
      [] kind = "none" -> 0
      [] OTHER -> -1

\* serial_write: result > 0
serial_write(size, kind) == IF Written(size, kind) > 0 THEN 1 ELSE 0

\* the environment's behaviour during one zvgFrameSend: every write succeeds
\* (bad = 0), or write number bad ends as kind; on an invalid handle all fail
TransportBehaviours ==
    IF s_serial_fd = INVALID_HANDLE_VALUE THEN {[bad |-> 0, kind |-> "fail"]}
    ELSE {[bad |-> 0, kind |-> "ok"]}
            \cup [bad : 1 .. MaxBadWrite, kind : {"short", "fail"}]

KindOfWrite(tr, i) ==
    IF s_serial_fd = INVALID_HANDLE_VALUE THEN "fail"
    ELSE IF i = tr.bad THEN tr.kind ELSE "ok"

(***************************************************************************)
(* Inputs the environment draws from                                       *)
(***************************************************************************)
\* zvgFrameSetRGB15 arguments (uint8_t each)
Colours == { <<0, 0, 0>>, <<31, 31, 31>>, <<0, 32, 0>>, <<31, 0, 0>> }

\* zvgFrameSetClipWin arguments: xMin, yMin, xMax, yMax
ClipWindows == { <<0, 0, 1000, 1000>>, <<-500, -500, 2000, 2000>> }

\* zvgFrameVector arguments: xStart, yStart, xEnd, yEnd
Segments ==
    { <<0, 0, 500, 500>>, <<500, 500, 1500, 750>>, <<1200, 0, 1500, 300>> }

\* how serial_open ends: which of its system calls fails, if any
OpenOutcomes == {"ok", "CreateFile", "GetCommState", "SetCommState", "SetCommTimeouts"}

(***************************************************************************)
(* The calls of the end-to-end scenario, after a successful zvgFrameOpen.  *)
(* scenario = n > 0 says that the calls since the latest successful        *)
(* zvgFrameOpen are exactly the first n - 1 of them.                       *)
(***************************************************************************)
ScenarioCalls ==
    << [op |-> "clipwin", args |-> <<0, 0, 1000, 1000>>],
       [op |-> "rgb",     args |-> <<31, 0, 0>>],
       [op |-> "vector",  args |-> <<0, 0, 500, 500>>],
       [op |-> "send",    args |-> << >>] >>

ScenarioNext(n, op, args) ==
    IF n >= 1 /\ n <= Len(ScenarioCalls)
       /\ ScenarioCalls[n] = [op |-> op, args |-> args]
    THEN n + 1 ELSE 0

(***************************************************************************)
(* Initial states: the program as loaded (all statics zero, the channel    *)
(* invalid), and the program after a successful zvgFrameOpen followed by   *)
(* MidFill or NearFill calls of zvgFrameSetRGB15(0, 0, 0).                 *)
(***************************************************************************)
Loaded ==
    /\ s_cmd_offs = 0
    /\ s_cmd_buf = EmptyBuf
    /\ s_last_r = 0 /\ s_last_g = 0 /\ s_last_b = 0
    /\ s_vector_length = 0
    /\ s_last_x = 0 /\ s_last_y = 0
    /\ s_serial_fd = INVALID_HANDLE_VALUE
    /\ s_xmin = 0 /\ s_ymin = 0 /\ s_xmax = 0 /\ s_ymax = 0
    /\ wire = << >>
    /\ sent = NothingSent
    /\ call = NoCall
    /\ scenario = 0

Filled(n) ==
    /\ s_cmd_offs = 4 + 4 * n
    /\ s_cmd_buf = [hdr |-> StaleQuad, fill |-> n, tail |-> << >>]
    /\ s_last_r = 0 /\ s_last_g = 0 /\ s_last_b = 0
    /\ s_vector_length = 0
    /\ s_last_x = INT_MIN /\ s_last_y = INT_MIN
    /\ s_serial_fd = VALID_HANDLE
    /\ s_xmin = 0 /\ s_ymin = 0 /\ s_xmax = 0 /\ s_ymax = 0
    /\ wire = << >>
    /\ sent = NothingSent
    /\ call = [NoCall EXCEPT !.op = "rgb", !.args = <<0, 0, 0>>, !.stored = 1,
                             !.top = 4 * n + 3]
    /\ scenario = 0

Init == Loaded \/ Filled(MidFill) \/ Filled(NearFill)

\* the model stops growing a frame at MaxTail (MaxGrow) quads; calls go on
\* when the buffer is full and they store nothing
CanGrow ==
    \/ ~HasRoom(s_cmd_offs)
    \/ Len(s_cmd_buf.tail) < (IF s_cmd_buf.fill = 0 THEN MaxTail ELSE MaxGrow)

(***************************************************************************)
(* zvgFrameOpen / serial_open (the Win32 branch; the other branch has the  *)
(* outcomes "ok" and "CreateFile" only)                                    *)
(***************************************************************************)
\* int result = errOpenDevice; ... result = 0;  (only a complete setup sets it)
OpenResult(outcome) == IF outcome = "ok" THEN errOk ELSE errOpenDevice

\* the code each failing stage hands to zvgError, which prints it
ReportedError(outcome) ==
    CASE outcome = "ok" -> errOk
      [] outcome = "CreateFile" -> errOpenCom
      [] outcome = "GetCommState" -> errComState
      [] OTHER -> errSetComTimeout

OpenHandle(outcome) ==
    IF outcome = "CreateFile" THEN INVALID_HANDLE_VALUE ELSE VALID_HANDLE

zvgFrameOpen ==
    \E outcome \in OpenOutcomes :
        /\ s_serial_fd' = OpenHandle(outcome)
        /\ cmd_reset
        /\ wire' = << >>
        /\ sent' = NothingSent
        /\ call' = [NoCall EXCEPT !.op = "open", !.args = <<outcome, ReportedError(outcome)>>,
                                  !.result = OpenResult(outcome)]
        /\ scenario' = IF OpenResult(outcome) = errOk THEN 1 ELSE 0
        /\ UNCHANGED clip_vars

(***************************************************************************)
(* zvgFrameClose / serial_close                                            *)
(***************************************************************************)
\* serial_close without its test of the handle
ChannelOpen_Always(fd) == TRUE

\* if (s_serial_fd != INVALID_HANDLE_VALUE)
ChannelOpen(fd) == fd # INVALID_HANDLE_VALUE

zvgFrameClose ==
    \E kind \in (IF ChannelOpen(s_serial_fd) THEN WriteKinds ELSE {"fail"}) :
      /\ scenario' = 0
      /\ IF ChannelOpen(s_serial_fd)
        THEN LET m == Put4([Mem EXCEPT !.offs = 0], CmdExit)
             IN /\ s_cmd_offs' = m.offs
                /\ s_cmd_buf' = [hdr |-> StaleQuad, fill |-> 0, tail |-> << >>]
                /\ wire' = << [off |-> 0, len |-> m.offs,
                               written |-> Written(m.offs, kind)] >>
                /\ s_serial_fd' = INVALID_HANDLE_VALUE
                /\ sent' = [size |-> m.offs, hdr |-> m.buf.hdr, fill |-> 0,
                            tail |-> << >>]
                /\ call' = [NoCall EXCEPT !.op = "close", !.top = m.top, !.result = 0]
                /\ UNCHANGED << s_last_r, s_last_g, s_last_b, s_vector_length,
                                s_last_x, s_last_y, clip_vars >>
        ELSE /\ s_serial_fd' = INVALID_HANDLE_VALUE
             /\ wire' = << >>
             /\ sent' = NothingSent
             /\ call' = [NoCall EXCEPT !.op = "close", !.result = -1]
             /\ UNCHANGED << frame_vars, clip_vars >>

(***************************************************************************)
(* zvgFrameSetClipWin                                                      *)
(***************************************************************************)
zvgFrameSetClipWin ==
    \E w \in ClipWindows :
        /\ s_xmin' = w[1]
        /\ s_ymin' = w[2]
        /\ s_xmax' = w[3]
        /\ s_ymax' = w[4]
        /\ wire' = << >>
        /\ sent' = NothingSent
        /\ call' = [NoCall EXCEPT !.op = "clipwin", !.args = w]
        /\ scenario' = ScenarioNext(scenario, "clipwin", w)
        /\ UNCHANGED << frame_vars, s_serial_fd >>

(***************************************************************************)
(* zvgFrameSetRGB15                                                        *)
(***************************************************************************)
\* a scaling that maps 0..31 onto 0..255
Scale5to8_Full(c) == IF c > 31 THEN 255 ELSE (c * 255) \div 31

\* r = red << 3; if (r > 255) r = 255;   (r is uint16_t, red is uint8_t)
Scale5to8(c) == IF (c * 8) % 65536 > 255 THEN 255 ELSE (c * 8) % 65536

zvgFrameSetRGB15 ==
    \E c \in Colours :
        LET r == Scale5to8(c[1])
            g == Scale5to8(c[2])
            b == Scale5to8(c[3])
            m == PutCmd(Mem, CmdRGB(r, g, b))
        IN /\ CanGrow
           /\ s_last_r' = r % 256
           /\ s_last_g' = g % 256
           /\ s_last_b' = b % 256
           /\ s_cmd_offs' = m.offs
           /\ s_cmd_buf' = m.buf
           /\ wire' = << >>
           /\ sent' = NothingSent
           /\ call' = [NoCall EXCEPT !.op = "rgb", !.args = c, !.top = m.top,
                                     !.stored = (m.offs - s_cmd_offs) \div 4]
           /\ scenario' = ScenarioNext(scenario, "rgb", c)
           /\ UNCHANGED << s_vector_length, s_last_x, s_last_y, s_serial_fd, clip_vars >>

(***************************************************************************)
(* zvgFrameVector                                                          *)
(***************************************************************************)
\* zvgFrameVector ignoring what line_clip returns
Accepted_Always(c) == TRUE

\* if (line_clip(&xStart, &yStart, &xEnd, &yEnd))
Accepted(c) == c.accept # 0

\* if (xs > DVG_RES_MAX) xs = DVG_RES_MAX; if (xs < 0) xs = 0;
ClampDev(v) == IF v > DVG_RES_MAX THEN DVG_RES_MAX ELSE IF v < 0 THEN 0 ELSE v

\* the quantized start (clamped) and the quantized end (not clamped)
Quantize(c) ==
    [xs |-> ClampDev(CONVX(c.x1)), ys |-> ClampDev(CONVY(c.y1)),
     xe |-> CONVX(c.x2), ye |-> CONVY(c.y2)]

\* if ((xStart != s_last_x) || (yStart != s_last_y)), on the clipped start
JumpNeeded(xStart, yStart) == xStart # s_last_x \/ yStart # s_last_y

\* a blank bit that looks at the red channel only
BlankOfColour_RedOnly(r, g, b) == IF r = 0 THEN 1 ELSE 0

\* blank = ((s_last_r == 0) && (s_last_g == 0) && (s_last_b == 0))
BlankOfColour(r, g, b) == IF r = 0 /\ g = 0 /\ b = 0 THEN 1 ELSE 0

\* the locals of an accepted call: the quantized points, the branch of line
\* 516, the two guarded stores and the blank bit of the end point
VectorLocals(c) ==
    LET d == Quantize(c)
        jump == JumpNeeded(c.x1, c.y1)
        blank == BlankOfColour(s_last_r, s_last_g, s_last_b)
        m1 == IF jump THEN PutCmd(Mem, CmdXY(1, d.xs, d.ys)) ELSE Mem
    IN [xs |-> d.xs, ys |-> d.ys, xe |-> d.xe, ye |-> d.ye, jump |-> jump,
        m |-> PutCmd(m1, CmdXY(blank, d.xe, d.ye))]

zvgFrameVector ==
    \E seg \in Segments :
      \E c \in {line_clip(seg[1], seg[2], seg[3], seg[4])} :
        /\ CanGrow
        /\ s_vector_length <= MaxPath
        /\ IF Accepted(c)
           THEN \E v \in {VectorLocals(c)} :
                  /\ \E l1 \in vector_length(s_last_x, s_last_y, v.xs, v.ys) :
                       \E l2 \in vector_length(v.xs, v.ys, v.xe, v.ye) :
                         s_vector_length' = Add32(Add32(s_vector_length, l1), l2)
                  /\ s_cmd_offs' = v.m.offs
                  /\ s_cmd_buf' = v.m.buf
                  /\ s_last_x' = v.xe
                  /\ s_last_y' = v.ye
                  /\ call' = [NoCall EXCEPT
                                !.op = "vector", !.args = seg,
                                !.accepted = (c.accept = 1),
                                !.clip = <<c.x1, c.y1, c.x2, c.y2>>,
                                !.q = <<v.xs, v.ys, v.xe, v.ye>>,
                                !.jump = v.jump, !.top = v.m.top,
                                !.stored = (v.m.offs - s_cmd_offs) \div 4]
                  /\ UNCHANGED << s_last_r, s_last_g, s_last_b >>
           ELSE /\ call' = [NoCall EXCEPT !.op = "vector", !.args = seg,
                                          !.accepted = (c.accept = 1),
                                          !.clip = <<c.x1, c.y1, c.x2, c.y2>>]
                /\ UNCHANGED frame_vars
        /\ wire' = << >>
        /\ sent' = NothingSent
        /\ scenario' = ScenarioNext(scenario, "vector", seg)
        /\ UNCHANGED << s_serial_fd, clip_vars >>

(***************************************************************************)
(* zvgFrameSend / serial_send                                              *)
(***************************************************************************)
\* the whole buffer in one write
ChunkOf_Whole(size) == size

\* chunk = MIN(size, 1024)
ChunkOf(size) == MIN(size, CHUNK_MAX)

\* a pass that gives up the rest of the buffer when its write fails or is short
SendPass_AbortOnFail(st, tr) ==
    LET chunk == ChunkOf(st.size)
        kind == KindOfWrite(tr, Len(st.wire) + 1)
    IN [size   |-> IF Written(chunk, kind) = chunk THEN st.size - chunk ELSE 0,
        offset |-> st.offset + chunk,
        wire   |-> Append(st.wire, [off |-> st.offset, len |-> chunk,
                                    written |-> Written(chunk, kind)]),
        result |-> serial_write(chunk, kind)]

\* One pass of  while (size) { chunk = MIN(size, 1024);
\*   result = serial_write(&s_cmd_buf[offset], chunk); size -= chunk; offset += chunk; }
\* on st = [size, offset, wire, result]; the write is entry Len(wire) + 1 of the wire.
SendPass(st, tr) ==
    LET chunk == ChunkOf(st.size)
        kind == KindOfWrite(tr, Len(st.wire) + 1)
    IN [size   |-> st.size - chunk,
        offset |-> st.offset + chunk,
        wire   |-> Append(st.wire, [off |-> st.offset, len |-> chunk,
                                    written |-> Written(chunk, kind)]),
        result |-> serial_write(chunk, kind)]

RECURSIVE serial_send_loop(_, _)
serial_send_loop(st, tr) ==
    IF st.size = 0 THEN st ELSE serial_send_loop(SendPass(st, tr), tr)

\* What Transport reads from s_cmd_buf at a quad index.  A quad at or beyond
\* CMD_BUF_SIZE lies outside the array: the store and the read are undefined,
\* Transport may get the bytes stored or whatever else lives there.
OobReads(size) == IF size > CMD_BUF_SIZE THEN {"stored", "other"} ELSE {"stored"}

OtherQuad == << 255, 255, 255, 255 >>

ReadBack(index, q, how) ==
    IF 4 * index + 3 < CMD_BUF_SIZE \/ how = "stored" THEN q ELSE OtherQuad

zvgFrameSend ==
    \E tr \in TransportBehaviours, how \in OobReads(s_cmd_offs + 8) :
        LET m0 == PutHeader(Mem, CmdFrame(s_vector_length))
            m1 == Put4(m0, CmdQuality)
            m2 == Put4(m1, CmdComplete)
            size == m2.offs
            done == serial_send_loop([size |-> size, offset |-> 0, wire |-> << >>,
                                       result |-> -1], tr)
        IN /\ wire' = done.wire
           /\ sent' = [size |-> size, hdr |-> m2.buf.hdr, fill |-> m2.buf.fill,
                       tail |-> [j \in 1 .. Len(m2.buf.tail) |->
                                    ReadBack(m2.buf.fill + j, m2.buf.tail[j], how)]]
           /\ cmd_reset
           /\ call' = [NoCall EXCEPT !.op = "send", !.size = size, !.top = m2.top,
                                     !.args = <<s_vector_length>>,
                                     !.result = done.result]
           /\ scenario' = ScenarioNext(scenario, "send", << >>)
           /\ UNCHANGED << s_serial_fd, clip_vars >>

(***************************************************************************)
(* The program: any sequence of API calls                                  *)
(***************************************************************************)
Next ==
    \/ zvgFrameOpen
    \/ zvgFrameClose
    \/ zvgFrameSetClipWin
    \/ zvgFrameSetRGB15
    \/ zvgFrameVector
    \/ zvgFrameSend

Spec == Init /\ [][Next]_vars

\* the shape of the state
TypeOK ==
    /\ s_cmd_offs % 4 = 0
    /\ s_cmd_offs = 0 \/ s_cmd_offs = 4 * QuadsOf(s_cmd_buf)
    /\ s_cmd_offs = 0 => QuadsOf(s_cmd_buf) = 1
    /\ s_last_r \in 0 .. 255 /\ s_last_g \in 0 .. 255 /\ s_last_b \in 0 .. 255
    /\ s_serial_fd \in {INVALID_HANDLE_VALUE, VALID_HANDLE}

(***************************************************************************)
(* line_clip pass by pass.  ClipSpec sets a clip window, enters line_clip  *)
(* once with a segment and runs its loop one pass per step; call holds the *)
(* activation: the arguments, the locals p, the number n of replacements   *)
(* made, and for the latest replacement the locals before it (was) and the *)
(* region code it picked (out).  pc is "loop" at the head of the loop,     *)
(* "accept" / "reject" after the break, "trap" after a division by zero.   *)
(***************************************************************************)
ClipCoords == {-7, -1, 0, 2, 5, 9}

\* <<min, max>> of the clip window along one axis
ClipRanges == { <<0, 0>>, <<0, 5>>, <<2, 5>>, <<5, 5>> }

ClipIdle == [op |-> "idle", args |-> << >>, pc |-> "idle", p |-> << >>,
             n |-> 0, was |-> << >>, out |-> 0]

ClipInit ==
    /\ s_cmd_offs = 0
    /\ s_cmd_buf = EmptyBuf
    /\ s_last_r = 0 /\ s_last_g = 0 /\ s_last_b = 0
    /\ s_vector_length = 0
    /\ s_last_x = 0 /\ s_last_y = 0
    /\ s_serial_fd = INVALID_HANDLE_VALUE
    /\ s_xmin = 0 /\ s_ymin = 0 /\ s_xmax = 0 /\ s_ymax = 0
    /\ wire = << >>
    /\ sent = NothingSent
    /\ call = ClipIdle
    /\ scenario = 0

ClipKeeps ==
    UNCHANGED << frame_vars, s_serial_fd, wire, sent, scenario >>

\* zvgFrameSetClipWin before the call of line_clip
ClipSetWindow ==
    \E xr \in ClipRanges, yr \in ClipRanges :
        /\ call.pc = "idle"
        /\ s_xmin' = xr[1]
        /\ s_ymin' = yr[1]
        /\ s_xmax' = xr[2]
        /\ s_ymax' = yr[2]
        /\ call' = ClipIdle
        /\ ClipKeeps

\* lines 296-307: the call reaches while (1)
ClipEnter ==
    \E x1 \in ClipCoords, y1 \in ClipCoords, x2 \in ClipCoords, y2 \in ClipCoords :
        /\ call.pc = "idle"
        /\ call' = [op |-> "line_clip", args |-> <<x1, y1, x2, y2>>, pc |-> "loop",
                    p |-> ClipEntry(x1, y1, x2, y2), n |-> 0,
                    was |-> ClipEntry(x1, y1, x2, y2), out |-> 0]
        /\ UNCHANGED clip_vars
        /\ ClipKeeps

\* lines 310-315: accept = 1; break
ClipAccept ==
    /\ call.pc = "loop"
    /\ ClipAccepts(call.p)
    /\ call' = [call EXCEPT !.pc = "accept"]
    /\ UNCHANGED clip_vars
    /\ ClipKeeps

\* lines 316-320: break
ClipReject ==
    /\ call.pc = "loop"
    /\ ClipRejects(call.p)
    /\ call' = [call EXCEPT !.pc = "reject"]
    /\ UNCHANGED clip_vars
    /\ ClipKeeps

\* lines 321-376: one endpoint is replaced by an intersection point
ClipReplace ==
    /\ call.pc = "loop"
    /\ ~ClipAccepts(call.p)
    /\ ~ClipRejects(call.p)
    /\ call.n < MaxReplace
    /\ \E out \in {CodeOut(call.p.code1, call.p.code2)} :
          call' = IF Divisor(call.p, out) = 0
                  THEN [call EXCEPT !.pc = "trap", !.was = call.p, !.out = out,
                                    !.n = @ + 1]
                  ELSE [call EXCEPT !.p = ClipStep(call.p), !.was = call.p,
                                    !.out = out, !.n = @ + 1]
    /\ UNCHANGED clip_vars
    /\ ClipKeeps

ClipRun == ClipAccept \/ ClipReject \/ ClipReplace

ClipNext ==
    \/ ClipSetWindow
    \/ ClipEnter
    \/ ClipAccept
    \/ ClipReject
    \/ ClipReplace

ClipSpec == ClipInit /\ [][ClipNext]_vars

\* line_clip at the head of its loop, for any window and segment of ClipSpec
ClipEntered ==
    /\ s_cmd_offs = 0
    /\ s_cmd_buf = EmptyBuf
    /\ s_last_r = 0 /\ s_last_g = 0 /\ s_last_b = 0
    /\ s_vector_length = 0
    /\ s_last_x = 0 /\ s_last_y = 0
    /\ s_serial_fd = INVALID_HANDLE_VALUE
    /\ \E xr \in ClipRanges, yr \in ClipRanges :
          /\ s_xmin = xr[1] /\ s_ymin = yr[1] /\ s_xmax = xr[2] /\ s_ymax = yr[2]
          /\ \E x1 \in ClipCoords, y1 \in ClipCoords, x2 \in ClipCoords, y2 \in ClipCoords :
                LET c1 == (IF x1 < xr[1] THEN LEFT ELSE IF x1 > xr[2] THEN RIGHT ELSE 0)
                        + (IF y1 < yr[1] THEN BOTTOM ELSE IF y1 > yr[2] THEN TOP ELSE 0)
                    c2 == (IF x2 < xr[1] THEN LEFT ELSE IF x2 > xr[2] THEN RIGHT ELSE 0)
                        + (IF y2 < yr[1] THEN BOTTOM ELSE IF y2 > yr[2] THEN TOP ELSE 0)
                    e == [x |-> 0, y |-> 0, x1 |-> x1, y1 |-> y1, x2 |-> x2, y2 |-> y2,
                          code1 |-> c1, code2 |-> c2]
                IN call = [op |-> "line_clip", args |-> <<x1, y1, x2, y2>>,
                           pc |-> "loop", p |-> e, n |-> 0, was |-> e, out |-> 0]
    /\ wire = << >>
    /\ sent = NothingSent
    /\ scenario = 0

\* once entered, the loop of line_clip keeps running
ClipLive == ClipEntered /\ [][ClipRun]_vars /\ WF_vars(ClipRun)

(***************************************************************************)
(* Properties                                                              *)
(***************************************************************************)
BlackNow == s_last_r = 0 /\ s_last_g = 0 /\ s_last_b = 0

\* the end-point word of the latest zvgFrameVector went into the buffer
EndStored == call.stored = 2 \/ (call.stored = 1 /\ ~call.jump)

\* C1: no call ever stores a byte at an index >= 131072 of the command buffer,
\* and the write offset never exceeds 131072, the two words zvgFrameSend
\* appends included.
C1_BufferBounded ==
    /\ call.top < 131072
    /\ s_cmd_offs <= 131072
    /\ call.op = "send" => call.size <= 131072

\* C2: the bytes zvgFrameSend transmits for a frame built since the last reset
\* are one FRAME word carrying the accumulated path length, then only RGB and
\* XY words, then QUALITY(5), then COMPLETE(0).
C2_FrameShape ==
    (call.op = "send" /\ call.size >= 12) =>
        LET n == Len(sent.tail)
        IN /\ sent.size = 4 * (1 + sent.fill + n)
           /\ TagOf(sent.hdr) = 4
           /\ PayloadOf(sent.hdr) = call.args[1]
           /\ n >= 2
           /\ sent.tail[n - 1] = <<96, 0, 0, 5>>
           /\ sent.tail[n] = <<0, 0, 0, 0>>
           /\ \A j \in 1 .. n - 2 : TagOf(sent.tail[j]) \in {1, 2}
           /\ sent.fill > 0 => TagOf(FillQuad) = 1

\* C3: zvgFrameSend hands the N finalized bytes to Transport as ceil(N / 1024)
\* writes at increasing, contiguous offsets, all of 1024 bytes except the last,
\* which takes the rest.
C3_Chunking ==
    call.op = "send" =>
        LET N == call.size
            n == (N + 1023) \div 1024
        IN /\ N = sent.size
           /\ Len(wire) = n
           /\ \A i \in 1 .. n :
                /\ wire[i].off = 1024 * (i - 1)
                /\ wire[i].len = IF i < n THEN 1024 ELSE N - 1024 * (n - 1)

C3_Witness ==
    /\ call.op = "send"
    /\ call.size = 2500
    /\ [i \in 1 .. Len(wire) |-> wire[i].len] = <<1024, 1024, 452>>

\* C4: when a Transport write of zvgFrameSend fails or is short, the remaining
\* chunks are still written in order up to the end of the buffer, and the
\* call leaves the frame empty: offset 4, path length 0, no last point, black.
C4_SendIgnoresFailure ==
    (call.op = "send" /\ \E i \in 1 .. Len(wire) : wire[i].written # wire[i].len) =>
        /\ wire[1].off = 0
        /\ \A i \in 2 .. Len(wire) : wire[i].off = wire[i - 1].off + wire[i - 1].len
        /\ wire[Len(wire)].off + wire[Len(wire)].len = call.size
        /\ s_cmd_offs = 4
        /\ s_cmd_buf.fill = 0 /\ s_cmd_buf.tail = << >>
        /\ s_vector_length = 0
        /\ s_last_x = INT_MIN /\ s_last_y = INT_MIN
        /\ BlackNow

C4_Witness ==
    /\ call.op = "send"
    /\ Len(wire) = 3
    /\ wire[1].written = -1
    /\ wire[3].written = wire[3].len

\* C5: zvgFrameClose on an open channel writes the one EXIT word E0 00 00 00
\* and invalidates the handle; on an invalid handle it writes nothing and
\* changes nothing.
C5_CloseIdempotent ==
    [][ call'.op = "close" =>
          IF s_serial_fd # INVALID_HANDLE_VALUE
          THEN /\ Len(wire') = 1
               /\ wire'[1].off = 0 /\ wire'[1].len = 4
               /\ sent'.size = 4 /\ sent'.hdr = <<224, 0, 0, 0>>
               /\ s_serial_fd' = INVALID_HANDLE_VALUE
          ELSE /\ wire' = << >>
               /\ UNCHANGED << frame_vars, clip_vars, s_serial_fd >> ]_vars

C5_Witness ==
    /\ call.op = "close"
    /\ call.result = 0
    /\ Len(wire) = 1
    /\ sent.hdr = <<224, 0, 0, 0>>
    /\ s_serial_fd = INVALID_HANDLE_VALUE

\* C6: every XY word in the buffer has its x and y fields in 0 .. 4095, and
\* so has the last emitted point once there is one.
C6_DeviceRange ==
    /\ \A j \in 1 .. Len(s_cmd_buf.tail) :
          TagOf(s_cmd_buf.tail[j]) = 2 =>
              /\ XField(s_cmd_buf.tail[j]) <= 4095
              /\ YField(s_cmd_buf.tail[j]) <= 4095
    /\ s_last_x # INT_MIN => s_last_x \in 0 .. 4095
    /\ s_last_y # INT_MIN => s_last_y \in 0 .. 4095

\* C7: an accepted zvgFrameVector (with room in the buffer for two words)
\* stores a blanked start-point word exactly when its quantized start differs
\* from the last emitted point; otherwise it stores the end point only.
C7_JumpIffMoved ==
    [][ (call'.op = "vector" /\ call'.accepted /\ s_cmd_offs <= 131060) =>
          IF <<call'.q[1], call'.q[2]>> # <<s_last_x, s_last_y>>
          THEN call'.stored = 2
          ELSE call'.stored = 1 ]_vars

\* C8: the end-point word of an accepted zvgFrameVector carries blank = 1
\* exactly when the last colour is (0, 0, 0); the last colour is (0, 0, 0)
\* after a reset and after zvgFrameSetRGB15(0, 0, 0), and is not after a
\* zvgFrameSetRGB15 with a non-zero channel.
C8_BlankIffBlack ==
    /\ (call.op = "vector" /\ call.accepted /\ EndStored) =>
          /\ TagOf(LastQuad(s_cmd_buf)) = 2
          /\ BlankField(LastQuad(s_cmd_buf)) = 1 <=> BlackNow
    /\ call.op = "rgb" => (BlackNow <=> call.args = <<0, 0, 0>>)
    /\ call.op \in {"open", "send"} => BlackNow

C8_Witness ==
    /\ call.op = "vector" /\ call.accepted /\ EndStored
    /\ s_last_g = 255
    /\ BlankField(LastQuad(s_cmd_buf)) = 0

\* C9 as stated: zvgFrameSetRGB15(31, 31, 31) makes the last colour
\* (255, 255, 255) and appends the RGB word with payload 0xFFFFFF.
C9_FullIntensity255 ==
    (call.op = "rgb" /\ call.args = <<31, 31, 31>>) =>
        /\ <<s_last_r, s_last_g, s_last_b>> = <<255, 255, 255>>
        /\ call.stored = 1
        /\ LastQuad(s_cmd_buf) = <<32, 255, 255, 255>>

\* C9 amended: zvgFrameSetRGB15(31, 31, 31) makes the last colour
\* (248, 248, 248) and, unless the write offset exceeds 131064 and the word is
\* dropped, appends the RGB word with payload 0xF8F8F8.
C9_FullIntensity248 ==
    (call.op = "rgb" /\ call.args = <<31, 31, 31>>) =>
        /\ <<s_last_r, s_last_g, s_last_b>> = <<248, 248, 248>>
        /\ call.stored = 1 \/ s_cmd_offs > 131064
        /\ call.stored = 1 => LastQuad(s_cmd_buf) = <<32, 248, 248, 248>>

C9_Witness ==
    /\ call.op = "rgb" /\ call.args = <<31, 31, 31>>
    /\ call.stored = 1

\* C10: a zvgFrameVector whose segment line_clip rejects changes nothing of
\* the frame: buffer, write offset, path length, last point and last colour.
C10_RejectedIsNoOp ==
    [][ (call'.op = "vector" /\ ~call'.accepted) => UNCHANGED frame_vars ]_vars

C10_Witness ==
    /\ call.op = "vector"
    /\ ~call.accepted
    /\ Len(s_cmd_buf.tail) > 0

\* the frame of the end-to-end scenario with path length len in its header:
\* FRAME(len), the RGB word of the colour, XY(0, 0) blanked, XY(2047, 2047)
\* lit, QUALITY(5), COMPLETE(0)
ScenarioFrame(len) ==
    /\ TagOf(sent.hdr) = 4 /\ PayloadOf(sent.hdr) = len
    /\ sent.fill = 0 /\ Len(sent.tail) = 5 /\ sent.size = 24
    /\ TagOf(sent.tail[1]) = 1
    /\ \A j \in {2, 3} : TagOf(sent.tail[j]) = 2
    /\ <<BlankField(sent.tail[2]), XField(sent.tail[2]), YField(sent.tail[2])>> = <<1, 0, 0>>
    /\ <<BlankField(sent.tail[3]), XField(sent.tail[3]), YField(sent.tail[3])>> = <<0, 2047, 2047>>
    /\ sent.tail[4] = <<96, 0, 0, 5>>
    /\ sent.tail[5] = <<0, 0, 0, 0>>

\* C11 as stated: zvgFrameOpen; zvgFrameSetClipWin(0,0,1000,1000);
\* zvgFrameSetRGB15(31,0,0); zvgFrameVector(0,0,500,500); zvgFrameSend transmits
\* FRAME with payload 2895, XY(0,0) blank=1, XY(2047,2047) blank=0,
\* QUALITY(5), COMPLETE(0).
C11_Scenario2895 == scenario = 5 => ScenarioFrame(2895)

\* C11 amended: the same calls transmit the same frame with FRAME payload 2894,
\* the truncated distance from (0,0) to (2047,2047), and with the RGB word of
\* the colour (248,0,0) before the two XY words.
C11_Scenario2894 ==
    scenario = 5 => (ScenarioFrame(2894) /\ PayloadOf(sent.tail[1]) = 16252928)

C11_Witness ==
    /\ scenario = 5
    /\ call.op = "send"
    /\ Len(sent.tail) = 5

\* C12: a zvgFrameOpen that fails at any stage returns non-zero and leaves no
\* open channel; a zvgFrameSend that follows writes nothing to a channel and a
\* zvgFrameClose that follows writes no EXIT word.
C12_FailedOpenUnusable ==
    [][ /\ (call'.op = "open" /\ call'.args[1] # "ok") =>
              /\ call'.result # 0
              /\ s_serial_fd' = INVALID_HANDLE_VALUE
        /\ (call.op = "open" /\ call.result # 0 /\ call'.op = "send") =>
              \A i \in 1 .. Len(wire') : wire'[i].written = -1
        /\ (call.op = "open" /\ call.result # 0 /\ call'.op = "close") =>
              wire' = << >> ]_vars

\* number of regions a region code names
Bits4(c) == (c % 2) + ((c \div 2) % 2) + ((c \div 4) % 2) + ((c \div 8) % 2)

\* the quotient of two integers, truncated toward zero
TruncQuot(num, den) ==
    LET q == (IF num < 0 THEN -num ELSE num) \div (IF den < 0 THEN -den ELSE den)
    IN IF (num < 0) = (den < 0) THEN q ELSE -q

\* line_clip has returned
ClipReturned == call.pc \in {"accept", "reject"}

\* the latest pass of the loop replaced an endpoint
ClipReplaced == call.pc \in {"loop", "accept", "reject"} /\ call.n > 0

\* the region code recomputed for the endpoint the latest pass replaced
ClipNewCode == IF call.out = call.was.code1 THEN call.p.code1 ELSE call.p.code2

\* C13: with xmin <= xmax and ymin <= ymax, a segment with one endpoint inside
\* the window and the other at x > xmax, ymin <= y <= ymax is accepted, the
\* inside endpoint is unchanged and the outside one becomes
\* (xmax, y1 + (y2 - y1) * (xmax - x1) / (x2 - x1)), the division truncating.
C13_RightCrossing ==
    (ClipReturned /\ s_xmin <= s_xmax /\ s_ymin <= s_ymax) =>
        LET x1 == call.args[1]
            y1 == call.args[2]
            x2 == call.args[3]
            y2 == call.args[4]
            Inside(x, y) == s_xmin <= x /\ x <= s_xmax /\ s_ymin <= y /\ y <= s_ymax
            Right(x, y) == x > s_xmax /\ s_ymin <= y /\ y <= s_ymax
            yHit == y1 + TruncQuot((y2 - y1) * (s_xmax - x1), x2 - x1)
            out == <<call.p.x1, call.p.y1, call.p.x2, call.p.y2>>
        IN /\ (Inside(x1, y1) /\ Right(x2, y2)) =>
                (call.pc = "accept" /\ out = <<x1, y1, s_xmax, yHit>>)
           /\ (Inside(x2, y2) /\ Right(x1, y1)) =>
                (call.pc = "accept" /\ out = <<s_xmax, yHit, x2, y2>>)

C13_Witness ==
    /\ call.pc = "accept"
    /\ <<s_xmin, s_ymin, s_xmax, s_ymax>> = <<0, 0, 5, 5>>
    /\ call.args = <<0, 2, 9, 0>>
    /\ <<call.p.x1, call.p.y1, call.p.x2, call.p.y2>> = <<0, 2, 5, 1>>

\* C14: for every segment and every window with xmin <= xmax and ymin <= ymax
\* the loop of line_clip reaches its accept exit or its reject exit.
C14_Terminates == (call.pc = "loop") ~> ClipReturned

C14_Witness ==
    /\ ClipReturned
    /\ call.n >= 3

\* C15 as stated: the region code recomputed for a replaced endpoint has
\* strictly fewer bits set than the code the endpoint had before.
C15_StrictlyFewer ==
    ClipReplaced => Bits4(ClipNewCode) < Bits4(call.out)

\* C15 amended: the region code recomputed for a replaced endpoint has no bit
\* of the axis of the boundary intersected (neither TOP nor BOTTOM after a
\* horizontal boundary, neither RIGHT nor LEFT after a vertical one) and never
\* more bits set than the code the endpoint had before.
C15_ClearsBoundary ==
    ClipReplaced =>
        /\ IF call.out >= 4 THEN ClipNewCode \div 4 = 0 ELSE ClipNewCode % 4 = 0
        /\ Bits4(ClipNewCode) <= Bits4(call.out)

C15_Witness ==
    /\ ClipReplaced
    /\ ClipNewCode # 0
    /\ Bits4(ClipNewCode) = Bits4(call.out)

\* C16: line_clip never divides by zero: a pass that intersects a horizontal
\* boundary has y2 # y1 and a pass that intersects a vertical one has x2 # x1.
C16_NoDivisionByZero ==
    /\ call.pc # "trap"
    /\ call.n > 0 =>
          IF call.out >= 4 THEN call.was.y2 # call.was.y1
                           ELSE call.was.x2 # call.was.x1

C16_Witness ==
    /\ ClipReplaced
    /\ call.out < 4
    /\ call.was.y1 = call.was.y2
    /\ call.was.x1 # call.was.x2

\* C19: a pass that replaces an endpoint replaces point 1 when its region code
\* is non-zero and point 2 otherwise, and puts it on the first boundary its
\* code names in the order TOP (y = ymax), BOTTOM (y = ymin), RIGHT (x = xmax),
\* LEFT (x = xmin).
C19_ReplacementOrder ==
    ClipReplaced =>
        LET w == call.was
            first == w.code1 # 0
            N == IF first THEN <<call.p.x1, call.p.y1>> ELSE <<call.p.x2, call.p.y2>>
        IN /\ IF first
              THEN /\ call.out = w.code1
                   /\ <<call.p.x2, call.p.y2, call.p.code2>> = <<w.x2, w.y2, w.code2>>
              ELSE /\ call.out = w.code2
                   /\ <<call.p.x1, call.p.y1, call.p.code1>> = <<w.x1, w.y1, w.code1>>
           /\ IF call.out \div 8 = 1 THEN N[2] = s_ymax
              ELSE IF (call.out \div 4) % 2 = 1 THEN N[2] = s_ymin
              ELSE IF (call.out \div 2) % 2 = 1 THEN N[1] = s_xmax
              ELSE N[1] = s_xmin

C19_Witness ==
    /\ ClipReplaced
    /\ call.was.code1 = 10
    /\ call.p.y1 = s_ymax
    /\ call.p.x1 # s_xmax

\* C17: the first accepted zvgFrameVector after a reset (last point INT_MIN,
\* INT_MIN) adds to the path length exactly the truncated distance between its
\* quantized start and its quantized end: the jump from the sentinel adds 0.
C17_FirstJumpIsFree ==
    [][ (call'.op = "vector" /\ call'.accepted
           /\ s_last_x = INT_MIN /\ s_last_y = INT_MIN) =>
          LET dx == call'.q[3] - call'.q[1]
              dy == call'.q[4] - call'.q[2]
              d  == dx * dx + dy * dy
              n  == s_vector_length' - s_vector_length
          IN n >= 0 /\ n <= 46340 /\ n * n <= d /\ d < (n + 1) * (n + 1) ]_vars

\* C18: zvgFrameClose leaves the frame being built as it was: the commands
\* appended, the write offset, the path length, the last point and the last
\* colour.
C18_CloseKeepsFrame ==
    [][ call'.op = "close" => UNCHANGED frame_vars ]_vars

\* the last word with this tag among the commands appended to a frame
LastWith(buf, tag) ==
    LET at == {j \in 1 .. Len(buf.tail) : TagOf(buf.tail[j]) = tag}
    IN IF at # {} THEN buf.tail[CHOOSE j \in at : \A k \in at : k <= j]
       ELSE IF tag = 1 /\ buf.fill > 0 THEN FillQuad
       ELSE << >>

\* the last point, when defined, is the one of the last XY word of the frame,
\* and the last colour is the one of its last RGB word, if it has one
LastAgree(buf, x, y, r, g, b) ==
    /\ x # INT_MIN =>
          /\ LastWith(buf, 2) # << >>
          /\ <<XField(LastWith(buf, 2)), YField(LastWith(buf, 2))>> = <<x, y>>
    /\ LastWith(buf, 1) # << >> =>
          PayloadOf(LastWith(buf, 1)) = r * 65536 + g * 256 + b

\* C20: within a frame, zvgFrameSetRGB15 and zvgFrameVector keep the last point
\* equal to the fields of the last XY word stored and the last colour equal to
\* the payload of the last RGB word stored, also when the buffer is full.
C20_LastMatchesBuffer ==
    [][ (call'.op \in {"rgb", "vector"} /\ s_cmd_offs >= 4
           /\ LastAgree(s_cmd_buf, s_last_x, s_last_y, s_last_r, s_last_g, s_last_b)) =>
          LastAgree(s_cmd_buf', s_last_x', s_last_y', s_last_r', s_last_g', s_last_b') ]_vars

====
